---- MODULE Spec2Model ----
(***************************************************************************)
(* Model of src/inverse_projections/get_datasets.py: the Dataset record    *)
(* (verify_downloaded, download_file, check_hash, process), the runner     *)
(* loop of the script, and the row behaviour of the processing functions.  *)
(*                                                                         *)
(* A file is a sequence of lines.  "H" is a header line (column names, or  *)
(* the header block of an ARFF file), "D" is a data line and "Z" is the    *)
(* end-of-archive directory of a zip file.  The filesystem survives from   *)
(* one run of the script to the next; the interpreter state does not.      *)
(***************************************************************************)
EXTENDS Naturals, Sequences, FiniteSets

VARIABLES
    raw,          \* raw[r]: the file at raw_file_path of record r
    clean,        \* clean[r]: the file at clean_file_path of record r
    dirs,         \* directories that exist: 0 is base_dir, r the raw dir of r
    pc,           \* position of the interpreter
    idx,          \* position of the for loop in datasets
    dataset,      \* the module-level loop variable (0: not bound)
    self,         \* the record whose process() is executing (0: none)
    caller,       \* who called process(): "runner" or "direct"
    resp,         \* the part of the response body not yet iterated
    trace,        \* what the current process() call has done so far
    entry,        \* which files of self existed when process() was entered
    visited,      \* records whose process() was entered in this run, in order
    cleanWritten, \* records whose clean file was written in this run
    incomplete,   \* records whose raw file was opened and not fully streamed
    error,        \* the exception that ended the run ("" while none)
    exitStatus    \* exit status of the run (2: still running or killed)

vars == << raw, clean, dirs, pc, idx, dataset, self, caller, resp, trace,
           entry, visited, cleanWritten, incomplete, error, exitStatus >>

(***************************************************************************)
(* Bounds of the model.                                                    *)
(***************************************************************************)
\* how many records of the catalog the runner loop iterates over
NumRecords == 2
\* lines per chunk of iter_content (the source streams 1024 bytes per chunk)
ChunkSize == 2
\* longest raw file given to a processing function on its own
MaxLines == 3

(***************************************************************************)
(* Files and digests.                                                      *)
(***************************************************************************)
Lines == {"H", "D", "Z"}

LineCode(l) == IF l = "H" THEN 1 ELSE IF l = "D" THEN 2 ELSE 3

\* hashlib.sha256(f.read()).hexdigest(): a collision-free digest of the
\* whole content, here the content read as a number in base 4.
RECURSIVE Sha256(_)
Sha256(s) ==
    IF s = << >> THEN 0
    ELSE Sha256(SubSeq(s, 1, Len(s) - 1)) * 4 + LineCode(s[Len(s)])

NoFile == [exists |-> FALSE, data |-> << >>]
NoTable == [exists |-> FALSE, rows |-> 0]

(***************************************************************************)
(* The catalog (datasets), in declaration order; hash is the pinned digest.*)
(***************************************************************************)
Catalog ==
    << [name |-> "abalone",     hash |-> 42,  fn |-> "process_abalone"],
       [name |-> "absenteeism", hash |-> 27,  fn |-> "process_absenteeism"],
       [name |-> "bank",        hash |-> 107, fn |-> "process_bank"],
       [name |-> "banknote",    hash |-> 10,  fn |-> "process_banknote"],
       [name |-> "diabetes",    hash |-> 26,  fn |-> "process_diabetes"],
       [name |-> "epileptic",   hash |-> 6,   fn |-> "process_epileptic"],
       [name |-> "happiness",   hash |-> 106, fn |-> "process_happiness"],
       [name |-> "seismic",     hash |-> 426, fn |-> "process_seismic"] >>

AllRecords == 1..Len(Catalog)

\* the records the for loop visits
datasets == [i \in 1..NumRecords |-> i]

\* the file each url held when its hash was pinned
Upstream ==
    << <<"D", "D", "D">>,
       <<"H", "D", "Z">>,
       <<"H", "D", "D", "Z">>,
       <<"D", "D">>,
       <<"H", "D", "D">>,
       <<"H", "D">>,
       <<"H", "D", "D", "D">>,
       <<"H", "D", "D", "D", "D">> >>

\* a body that differs from b in its first line
Changed(b) == << (IF b[1] = "H" THEN "D" ELSE "H") >> \o Tail(b)

\* what requests.get(self.url, stream=True) may answer for record r:
\* None is a connection failure, otherwise the Content-Length header may
\* be missing and the body is the pinned file or a changed one.
Responses(r) ==
    { [reached |-> FALSE, hasLength |-> FALSE, body |-> << >>] }
    \cup { [reached |-> TRUE, hasLength |-> hl, body |-> b] :
             hl \in BOOLEAN, b \in {Upstream[r], Changed(Upstream[r])} }

(***************************************************************************)
(* The processing functions: what they read, and how many rows they write. *)
(***************************************************************************)
Failed(e) == [ok |-> FALSE, err |-> e, rows |-> 0]
Table(n) == [ok |-> TRUE, err |-> "", rows |-> n]

\* MinMaxScaler().fit_transform raises on a table with no rows.
Scaled(n) == IF n = 0 THEN Failed("ValueError") ELSE Table(n)

\* pd.read_csv(..., header=None): every line is a row.
ReadCsvNoHeader(lines) ==
    IF lines = << >> THEN Failed("EmptyDataError") ELSE Scaled(Len(lines))

\* pd.read_csv(...) with the default header: line 1 gives the column names
\* and is not a row; the column names are then replaced, so any first line
\* is accepted.
ReadCsvRenamed(lines) ==
    IF lines = << >> THEN Failed("EmptyDataError") ELSE Scaled(Len(lines) - 1)

\* pd.read_csv(...) with the default header, columns then looked up by the
\* names of line 1.
ReadCsvNamed(lines) ==
    IF lines = << >> THEN Failed("EmptyDataError")
    ELSE IF lines[1] # "H" THEN Failed("KeyError")
    ELSE Scaled(Len(lines) - 1)

\* zipfile.ZipFile(input_file) needs the directory at the end of the archive.
ReadZipCsvNamed(lines) ==
    IF lines = << >> \/ lines[Len(lines)] # "Z" THEN Failed("BadZipFile")
    ELSE ReadCsvNamed(SubSeq(lines, 1, Len(lines) - 1))

\* arff.loadarff(input_file) needs the header block, then reads the records.
ReadArff(lines) ==
    IF lines = << >> \/ lines[1] # "H" THEN Failed("ParseArffError")
    ELSE Scaled(Len(lines) - 1)

process_abalone(lines) == ReadCsvNoHeader(lines)
process_absenteeism(lines) == ReadZipCsvNamed(lines)
process_bank(lines) == ReadZipCsvNamed(lines)
process_banknote(lines) == ReadCsvRenamed(lines)
process_diabetes(lines) == ReadCsvNamed(lines)
process_epileptic(lines) == ReadCsvNamed(lines)
process_happiness(lines) == ReadCsvNamed(lines)
process_seismic(lines) == ReadArff(lines)

\* self.processing_function(self.raw_file_path, ...) of record r
processing_function(r, file) ==
    IF ~file.exists THEN Failed("FileNotFoundError")
    ELSE CASE Catalog[r].fn = "process_abalone" -> process_abalone(file.data)
           [] Catalog[r].fn = "process_absenteeism" -> process_absenteeism(file.data)
           [] Catalog[r].fn = "process_bank" -> process_bank(file.data)
           [] Catalog[r].fn = "process_banknote" -> process_banknote(file.data)
           [] Catalog[r].fn = "process_diabetes" -> process_diabetes(file.data)
           [] Catalog[r].fn = "process_epileptic" -> process_epileptic(file.data)
           [] Catalog[r].fn = "process_happiness" -> process_happiness(file.data)
           [] OTHER -> process_seismic(file.data)

(***************************************************************************)
(* The interpreter.                                                        *)
(***************************************************************************)
Running == {"loop", "verify_downloaded", "download_file", "open", "stream",
            "check_hash", "processing_function", "links"}

Init ==
    /\ raw = [r \in AllRecords |-> NoFile]
    /\ clean = [r \in AllRecords |-> NoTable]
    /\ dirs = {}
    /\ pc = "idle"
    /\ idx = 0
    /\ dataset = 0
    /\ self = 0
    /\ caller = "runner"
    /\ resp = << >>
    /\ trace = << >>
    /\ entry = [raw |-> FALSE, clean |-> FALSE]
    /\ visited = << >>
    /\ cleanWritten = {}
    /\ incomplete = {}
    /\ error = ""
    /\ exitStatus = 2

\* variant: the loop catches the failure of a record and goes on
AbortContinue(e) ==
    /\ pc' = "loop"
    /\ error' = e
    /\ exitStatus' = exitStatus

\* An uncaught exception (SystemExit from exit(1) included) unwinds through
\* process() and the for loop and ends the interpreter with status 1.
Abort(e) ==
    /\ pc' = "aborted"
    /\ error' = e
    /\ exitStatus' = 1

\* python runs the script: a new interpreter over the filesystem as it is;
\* base_dir is created when missing.
StartRun ==
    /\ pc \in {"idle", "done", "aborted", "killed"}
    /\ pc' = "loop"
    /\ dirs' = dirs \cup {0}
    /\ idx' = 0
    /\ dataset' = 0
    /\ self' = 0
    /\ caller' = "runner"
    /\ resp' = << >>
    /\ trace' = << >>
    /\ entry' = [raw |-> FALSE, clean |-> FALSE]
    /\ visited' = << >>
    /\ cleanWritten' = {}
    /\ error' = ""
    /\ exitStatus' = 2
    /\ UNCHANGED << raw, clean, incomplete >>

\* for dataset in datasets: dataset.process()
ForNext ==
    /\ pc = "loop"
    /\ idx < Len(datasets)
    /\ idx' = idx + 1
    /\ dataset' = datasets[idx + 1]
    /\ self' = datasets[idx + 1]
    /\ caller' = "runner"
    /\ trace' = << >>
    /\ entry' = [raw |-> raw[datasets[idx + 1]].exists,
                 clean |-> clean[datasets[idx + 1]].exists]
    /\ visited' = Append(visited, datasets[idx + 1])
    /\ pc' = "verify_downloaded"
    /\ UNCHANGED << raw, clean, dirs, resp, cleanWritten, incomplete, error,
                    exitStatus >>

\* the loop is exhausted
ForEnd ==
    /\ pc = "loop"
    /\ idx = Len(datasets)
    /\ pc' = "links"
    /\ UNCHANGED << raw, clean, dirs, idx, dataset, self, caller, resp, trace,
                    entry, visited, cleanWritten, incomplete, error,
                    exitStatus >>

\* the print of the links, the last statement of the script
PrintLinks ==
    /\ pc = "links"
    /\ pc' = "done"
    /\ exitStatus' = 0
    /\ UNCHANGED << raw, clean, dirs, idx, dataset, self, caller, resp, trace,
                    entry, visited, cleanWritten, incomplete, error >>

\* variant: the presence test looks at the clean file
RawPresentCleanChecked == clean[dataset].exists

\* the test of verify_downloaded
RawPresent == raw[dataset].exists

VerifyDownloaded ==
    /\ pc = "verify_downloaded"
    /\ pc' = IF RawPresent THEN "processing_function" ELSE "download_file"
    /\ UNCHANGED << raw, clean, dirs, idx, dataset, self, caller, resp, trace,
                    entry, visited, cleanWritten, incomplete, error,
                    exitStatus >>

\* variant: the destination is opened before the request is made
DownloadFileOpenFirst ==
    /\ pc = "download_file"
    /\ dirs' = dirs \cup {self}
    /\ raw' = [raw EXCEPT ![self] = [exists |-> TRUE, data |-> << >>]]
    /\ incomplete' = incomplete \cup {self}
    /\ trace' = Append(trace, "get")
    /\ \E r \in Responses(self) :
         IF ~r.reached
         THEN Abort("ConnectionError") /\ resp' = << >>
         ELSE IF ~r.hasLength
         THEN Abort("TypeError") /\ resp' = << >>
         ELSE /\ resp' = r.body
              /\ pc' = "stream"
              /\ UNCHANGED << error, exitStatus >>
    /\ UNCHANGED << clean, idx, dataset, self, caller, entry, visited,
                    cleanWritten >>

\* download_file up to the progress bar: mkdir of the parent, requests.get,
\* int(r.headers.get("Content-Length"))
DownloadFile ==
    /\ pc = "download_file"
    /\ dirs' = dirs \cup {self}
    /\ trace' = Append(trace, "get")
    /\ \E r \in Responses(self) :
         IF ~r.reached
         THEN Abort("ConnectionError") /\ resp' = << >>
         ELSE IF ~r.hasLength
         THEN Abort("TypeError") /\ resp' = << >>
         ELSE /\ resp' = r.body
              /\ pc' = "open"
              /\ UNCHANGED << error, exitStatus >>
    /\ UNCHANGED << raw, clean, idx, dataset, self, caller, entry, visited,
                    cleanWritten, incomplete >>

\* with open(self.raw_file_path, "wb") as f
OpenRaw ==
    /\ pc = "open"
    /\ raw' = [raw EXCEPT ![self] = [exists |-> TRUE, data |-> << >>]]
    /\ incomplete' = incomplete \cup {self}
    /\ trace' = Append(trace, "open")
    /\ pc' = "stream"
    /\ UNCHANGED << clean, dirs, idx, dataset, self, caller, resp, entry,
                    visited, cleanWritten, error, exitStatus >>

\* one turn of for chunk in r.iter_content(...): either the next chunk is
\* written, or the connection breaks and iter_content raises
WriteChunk ==
    /\ pc = "stream"
    /\ resp # << >>
    /\ \/ /\ raw' = [raw EXCEPT ![self].data =
                       @ \o SubSeq(resp, 1, IF Len(resp) < ChunkSize
                                            THEN Len(resp) ELSE ChunkSize)]
          /\ resp' = SubSeq(resp, (IF Len(resp) < ChunkSize
                                   THEN Len(resp) ELSE ChunkSize) + 1, Len(resp))
          /\ trace' = Append(trace, "chunk")
          /\ UNCHANGED << pc, error, exitStatus >>
       \/ /\ Abort("ChunkedEncodingError")
          /\ UNCHANGED << raw, resp, trace >>
    /\ UNCHANGED << clean, dirs, idx, dataset, self, caller, entry, visited,
                    cleanWritten, incomplete >>

\* variant: download_file returns without calling check_hash
DownloadFileEndNoCheck ==
    /\ pc = "stream"
    /\ resp = << >>
    /\ incomplete' = incomplete \ {self}
    /\ pc' = "processing_function"
    /\ UNCHANGED << raw, clean, dirs, idx, dataset, self, caller, resp, trace,
                    entry, visited, cleanWritten, error, exitStatus >>

\* the body is exhausted: the file is closed, pbar.close(), self.check_hash()
DownloadFileEnd ==
    /\ pc = "stream"
    /\ resp = << >>
    /\ incomplete' = incomplete \ {self}
    /\ pc' = "check_hash"
    /\ UNCHANGED << raw, clean, dirs, idx, dataset, self, caller, resp, trace,
                    entry, visited, cleanWritten, error, exitStatus >>

\* variant: a mismatch is printed and check_hash returns
CheckHashWarnOnly ==
    /\ pc = "check_hash"
    /\ trace' = Append(trace, "hash")
    /\ pc' = "processing_function"
    /\ UNCHANGED << raw, clean, dirs, idx, dataset, self, caller, resp, entry,
                    visited, cleanWritten, incomplete, error, exitStatus >>

\* check_hash: on a mismatch a message is printed and exit(1) is called
CheckHash ==
    /\ pc = "check_hash"
    /\ trace' = Append(trace, "hash")
    /\ IF Sha256(raw[self].data) # Catalog[self].hash
       THEN Abort("SystemExit")
       ELSE pc' = "processing_function" /\ UNCHANGED << error, exitStatus >>
    /\ UNCHANGED << raw, clean, dirs, idx, dataset, self, caller, resp, entry,
                    visited, cleanWritten, incomplete >>

\* variant: process() skips the processing function when the clean file exists
RunProcessingFunctionCached ==
    /\ pc = "processing_function"
    /\ IF clean[self].exists
       THEN /\ pc' = IF caller = "runner" THEN "loop" ELSE "done"
            /\ UNCHANGED << clean, cleanWritten, trace, error, exitStatus >>
       ELSE /\ trace' = Append(trace, "transform")
            /\ LET out == processing_function(self, raw[self]) IN
                 IF out.ok
                 THEN /\ clean' = [clean EXCEPT ![self] =
                                     [exists |-> TRUE, rows |-> out.rows]]
                      /\ cleanWritten' = cleanWritten \cup {self}
                      /\ pc' = IF caller = "runner" THEN "loop" ELSE "done"
                      /\ UNCHANGED << error, exitStatus >>
                 ELSE /\ Abort(out.err)
                      /\ UNCHANGED << clean, cleanWritten >>
    /\ UNCHANGED << raw, dirs, idx, dataset, self, caller, resp, entry,
                    visited, incomplete >>

\* self.processing_function(self.raw_file_path, self.clean_file_path), then
\* process() returns to its caller
RunProcessingFunction ==
    /\ pc = "processing_function"
    /\ trace' = Append(trace, "transform")
    /\ LET out == processing_function(self, raw[self]) IN
         IF out.ok
         THEN /\ clean' = [clean EXCEPT ![self] =
                             [exists |-> TRUE, rows |-> out.rows]]
              /\ cleanWritten' = cleanWritten \cup {self}
              /\ pc' = IF caller = "runner" THEN "loop" ELSE "done"
              /\ UNCHANGED << error, exitStatus >>
         ELSE /\ Abort(out.err)
              /\ UNCHANGED << clean, cleanWritten >>
    /\ UNCHANGED << raw, dirs, idx, dataset, self, caller, resp, entry,
                    visited, incomplete >>

\* the interpreter is killed (SIGKILL, power loss) wherever it is
Interrupt ==
    /\ pc \in Running
    /\ pc' = "killed"
    /\ UNCHANGED << raw, clean, dirs, idx, dataset, self, caller, resp, trace,
                    entry, visited, cleanWritten, incomplete, error,
                    exitStatus >>

Next ==
    \/ StartRun
    \/ ForNext
    \/ ForEnd
    \/ PrintLinks
    \/ VerifyDownloaded
    \/ DownloadFile
    \/ OpenRaw
    \/ WriteChunk
    \/ DownloadFileEnd
    \/ CheckHash
    \/ RunProcessingFunction
    \/ Interrupt

Spec == Init /\ [][Next]_vars

(***************************************************************************)
(* process() called from outside the loop: the interpreter stays alive     *)
(* after the script body (python -i, or a caller that runs the script and  *)
(* keeps its globals), with the loop variable as the loop left it.         *)
(***************************************************************************)
CallProcess(r) ==
    /\ pc \in {"done", "aborted"}
    /\ self' = r
    /\ caller' = "direct"
    /\ trace' = << >>
    /\ entry' = [raw |-> raw[r].exists, clean |-> clean[r].exists]
    /\ error' = ""
    /\ exitStatus' = 2
    /\ pc' = "verify_downloaded"
    /\ UNCHANGED << raw, clean, dirs, idx, dataset, resp, visited,
                    cleanWritten, incomplete >>

NextCall ==
    \/ Next
    \/ \E r \in 1..NumRecords : CallProcess(datasets[r])

SpecCall == Init /\ [][NextCall]_vars

(***************************************************************************)
(* A processing function on its own: any record of the catalog, any raw    *)
(* file of at most MaxLines lines.                                         *)
(***************************************************************************)
Inputs == UNION { [1..n -> Lines] : n \in 0..MaxLines }

InitFn ==
    /\ self \in AllRecords
    /\ dataset = self
    /\ \E data \in Inputs :
         raw = [r \in AllRecords |->
                  IF r = self THEN [exists |-> TRUE, data |-> data] ELSE NoFile]
    /\ clean = [r \in AllRecords |-> NoTable]
    /\ dirs = {0, self}
    /\ pc = "processing_function"
    /\ idx = 0
    /\ caller = "direct"
    /\ resp = << >>
    /\ trace = << >>
    /\ entry = [raw |-> TRUE, clean |-> FALSE]
    /\ visited = << >>
    /\ cleanWritten = {}
    /\ incomplete = {}
    /\ error = ""
    /\ exitStatus = 2

NextFn == RunProcessingFunction

SpecFn == InitFn /\ [][NextFn]_vars

(***************************************************************************)
(* Properties.                                                             *)
(***************************************************************************)
InTrace(e) == \E i \in 1..Len(trace) : trace[i] = e

Count(e, t) == Cardinality({i \in 1..Len(t) : t[i] = e})

Prefix(n) == [i \in 1..n |-> i]

Digest(r) == Sha256(raw[r].data)

\* C1: process() invokes the processing function, and so writes
\* clean_file_path, only when the digest of the current content of
\* raw_file_path equals the pinned hash of the record.
C1_TransformOnlyVerified ==
    (InTrace("transform") /\ self \in cleanWritten) =>
        Digest(self) = Catalog[self].hash

\* C2: when a fresh download yields a file whose digest differs from the
\* pinned hash, check_hash ends the interpreter with a non-zero status, the
\* processing function of that record is not invoked in that run and its
\* clean file is not written.
C2_MismatchHalts ==
    (InTrace("hash") /\ Digest(self) # Catalog[self].hash) =>
        /\ pc = "aborted"
        /\ error = "SystemExit"
        /\ exitStatus = 1
        /\ ~InTrace("transform")
        /\ self \notin cleanWritten

C2_Witness ==
    /\ error = "SystemExit"
    /\ InTrace("chunk")
    /\ Digest(self) # Catalog[self].hash

\* C3: a raw file left partial by a run that stopped while streaming is
\* never handed to the processing function by a later run.
C3_PartialDetected ==
    InTrace("transform") => self \notin incomplete

C6_FailureHaltsRun ==
    /\ visited = Prefix(Len(visited))
    /\ cleanWritten \subseteq 1..Len(visited)
    /\ (error # "" =>
          /\ pc = "aborted"
          /\ exitStatus = 1
          /\ Len(visited) > 0
          /\ self = visited[Len(visited)]
          /\ self \notin cleanWritten)
    /\ (pc \in {"links", "done"} => cleanWritten = 1..Len(datasets))

C6_Witness ==
    /\ pc = "aborted"
    /\ error # ""
    /\ Len(visited) < Len(datasets)
    /\ \A r \in (Len(visited) + 1)..Len(datasets) :
           ~raw[r].exists /\ ~clean[r].exists

\* C7: when the url cannot be reached or the answer has no Content-Length,
\* download_file fails before anything is written: the call aborts having
\* made the request only, and neither file of the record is created.
C7_FailedRequestWritesNothing ==
    error \in {"ConnectionError", "TypeError"} =>
        /\ pc = "aborted"
        /\ trace = << "get" >>
        /\ ~raw[self].exists
        /\ self \notin incomplete
        /\ self \notin cleanWritten
        /\ clean[self].exists = entry.clean

C7_Witness ==
    /\ error = "TypeError"
    /\ self \in dirs
    /\ ~raw[self].exists
    /\ ~clean[self].exists

\* C8: process_banknote, reading a raw file without a header line, writes
\* one row for every line of the raw file.
C8_BanknoteKeepsEveryRow ==
    ( /\ pc = "done"
      /\ Catalog[self].fn = "process_banknote"
      /\ \A i \in 1..Len(raw[self].data) : raw[self].data[i] = "D" ) =>
        (clean[self].exists /\ clean[self].rows = Len(raw[self].data))

\* C9: in a call that downloads, check_hash runs exactly once, after the
\* last chunk is written and before the processing function; in a call that
\* does not download it does not run.
C9_HashOnceAfterDownload ==
    /\ Count("hash", trace) <= 1
    /\ (InTrace("hash") => InTrace("get") /\ resp = << >>)
    /\ \A i, j \in 1..Len(trace) :
          /\ (trace[i] = "chunk" /\ trace[j] = "hash") => i < j
          /\ (trace[i] = "hash" /\ trace[j] = "transform") => i < j
    /\ ((InTrace("get") /\ (InTrace("transform") \/ pc = "processing_function"))
          => Count("hash", trace) = 1)

C9_Witness ==
    /\ InTrace("transform")
    /\ InTrace("hash")
    /\ Count("chunk", trace) >= 2
    /\ ~entry.raw

\* C10: whichever record process() is called on, it downloads exactly when
\* that record's own raw_file_path is absent and hands its own existing raw
\* file to the processing function.
C10_OwnRawDecides ==
    /\ (pc = "download_file" => ~raw[self].exists)
    /\ ((pc = "processing_function" /\ ~InTrace("get")) => raw[self].exists)

====
